---- MODULE Spec2Model ----
(***************************************************************************)
(* Model of the receipt pipeline of OCR_Belege:                            *)
(*   app/ocr.py     ocr_file / ocr_image   (document -> text)              *)
(*   app/parser.py  parse_store_and_total  (text -> store, chain, total)   *)
(* Texts are sequences of one-character strings.  The OCR engine, the      *)
(* orientation detector, pdftotext and the PDF rasterizer are external     *)
(* services: every call picks one of their possible outcomes.              *)
(***************************************************************************)
EXTENDS Integers, Sequences, FiniteSets, TLC

VARIABLES
    \* ---- ocr.py ----
    ext,        \* os.path.splitext(path)[1].lower()
    pc,         \* position inside ocr_file / ocr_image
    txt,        \* ocr_file: result of _pdftotext
    pages,      \* ocr_file: number of pages convert_from_path returned
    texts,      \* ocr_file: list of per-page results
    attempts,   \* ocr_image: attempts not yet consumed by the for loop
    best,       \* ocr_image: longest text so far
    outs,       \* ocr_image: <<config, txt>> of every image_to_string call made
    retval,     \* value ocr_image returns
    result,     \* value ocr_file returns
    raised,     \* TRUE when an exception left ocr_file
    fault,      \* which external failure ended the call early, if any
    rasterCalled, \* convert_from_path was called
    ocrCalls,   \* number of image_to_string calls during this ocr_file call
    anyText,    \* some image_to_string call returned non-empty text
    \* ---- parser.py ----
    text,       \* parse_store_and_total: the argument
    ppc,        \* position inside parse_store_and_total
    store_name, \* parse_store_and_total: store_name
    chain_name, \* parse_store_and_total: chain_name
    patIx,      \* index of the next pattern of TOTAL_PATTERNS to scan with
    candidates, \* <<m.start(), val, raw>> of every parsable match so far
    total,      \* parse_store_and_total: total
    tier,       \* 1: total taken from candidates, 2: from the line scan
    \* ---- several calls in flight ----
    calls,      \* per call: the document it was given
    frame,      \* per call: the local variables of ocr_file / ocr_image /
                \* parse_store_and_total
    lists       \* the list objects bound to the name candidates

ocrVars == <<ext, pc, txt, pages, texts, attempts, best, outs, retval, result,
             raised, fault, rasterCalled, ocrCalls, anyText>>

parseVars == <<text, ppc, store_name, chain_name, patIx, candidates, total, tier>>

concVars == <<calls, frame, lists>>

vars == <<ocrVars, parseVars, concVars>>

-----------------------------------------------------------------------------
(* Bounds *)
MaxPages == 2
MaxFrags == 2
MaxGroups == 2
BlankRun == 6
MaxLines == 3
MaxCalls == 2

-----------------------------------------------------------------------------
(* Text helpers *)

\* a text is a sequence of characters; None and a raised exception are the
\* two values that are not texts
None == <<"None">>
FAIL == <<"raise">>
\* a failed call of a service that answers with a number
NoAnswer == 0 - 1

Rep(c, n) == [k \in 1..n |-> c]

\* str.strip(): whitespace removed at both ends
WS == {" ", "\t", "\n", "\r"}

RECURSIVE LStrip(_)
LStrip(s) == IF s # <<>> /\ Head(s) \in WS THEN LStrip(Tail(s)) ELSE s

RECURSIVE RStrip(_)
RStrip(s) ==
    IF s # <<>> /\ s[Len(s)] \in WS THEN RStrip(SubSeq(s, 1, Len(s) - 1)) ELSE s

Strip(s) == RStrip(LStrip(s))

\* sep.join(list)
RECURSIVE Join(_, _)
Join(sep, list) ==
    IF list = <<>> THEN <<>>
    ELSE IF Len(list) = 1 THEN list[1]
    ELSE list[1] \o sep \o Join(sep, Tail(list))

-----------------------------------------------------------------------------
(* ocr.py *)

IMAGE_EXTS == {".png", ".jpg", ".jpeg", ".tif", ".tiff", ".bmp"}
Exts == IMAGE_EXTS \cup {".pdf", ".bin"}

\* configs of the five attempts, in list order
BaseCfg == "--oem 1 --psm 6 -c preserve_interword_spaces=1"
Psm4Cfg == "--oem 1 --psm 4 -c preserve_interword_spaces=1"
BandCfg == "--oem 1 --psm 6 -c preserve_interword_spaces=1 -c tessedit_char_whitelist=0123456789.,:-CHFfrSFRFr"
LineCfg == "--oem 1 --psm 7 -c tessedit_char_whitelist=0123456789.,:-CHFfrSFRFr"
AttemptConfigs == <<BaseCfg, BaseCfg, Psm4Cfg, BandCfg, LineCfg>>

\* what one image_to_string call can give: an exception, None/"" or a text
OcrTexts == {<<>>, <<"a">>, <<"b">>, <<"a", "b">>}
OcrOutcomes == OcrTexts \cup {FAIL}

\* what pdftotext can print: nothing, and texts around the threshold (19
\* characters between whitespace, 20 characters, 20 between whitespace)
MinTextLayerLen == 20
PdfTexts ==
    { <<>>,
      <<" ", " ">> \o Rep("x", 19) \o <<"\n">>,
      Rep("x", 20),
      <<"\n">> \o Rep("x", 20) \o <<" ", "\n">> }

\* what Tesseract OSD can report in its "Rotate:" line
OsdOutcomes == {NoAnswer, 0, 90, 180, 270}

\* _auto_rotate: the rotation applied to the image (0 = image unchanged)
AutoRotate(osd, rotateOk) ==
    IF osd = NoAnswer THEN 0
    ELSE IF (osd % 360) # 0 /\ (osd % 360) \in {90, 180, 270}
         THEN (IF rotateOk THEN 360 - (osd % 360) ELSE 0)
         ELSE 0

\* _preprocess_for_ocr: the binarized image, or the input image on any failure
Preprocess(image, ok) == IF ok THEN <<"pre", image>> ELSE image

\* _right_band: the right crop of the image
RightBand(image) == <<"band", image>>

\* variant: a text layer of exactly the minimal length is not enough
TextLayerStrictlyLonger(t) == Len(Strip(t)) > MinTextLayerLen

\* ocr_file line 124
TextLayerSufficient(t) == Len(Strip(t)) >= MinTextLayerLen

\* variant: on equal length the later attempt replaces the earlier one
LongerOrEqual(t, b) == IF Len(t) >= Len(b) THEN t ELSE b

\* ocr_image line 99-100
Longer(t, b) == IF Len(t) > Len(b) THEN t ELSE b

\* ocr_file line 138
JoinPages(list) == Join(<<"\n", "\n">>, list)

\* the three handlers that end a call with "": ocr_file line 155-157,
\* ocr_file line 152-154, ocr_file line 130-132
ReturnFromHandler(f) ==
    /\ result' = <<>>
    /\ raised' = FALSE
    /\ fault' = f
    /\ pc' = "done"

\* variant: no handler, the exception leaves ocr_file
Propagate(f) ==
    /\ UNCHANGED result
    /\ raised' = TRUE
    /\ fault' = f
    /\ pc' = "done"

OuterExcept(f) == ReturnFromHandler(f)
FallbackExcept(f) == ReturnFromHandler(f)
RasterExcept(f) == ReturnFromHandler(f)

\* no call of the concurrent setting exists
ConcIdle ==
    /\ calls = <<>>
    /\ frame = <<>>
    /\ lists = <<>>

ParseIdle ==
    /\ text = <<>>
    /\ ppc = "idle"
    /\ store_name = None
    /\ chain_name = None
    /\ patIx = 0
    /\ candidates = <<>>
    /\ total = None
    /\ tier = 0

InitOcr ==
    /\ ParseIdle
    /\ ConcIdle
    /\ ext \in Exts
    /\ pc = "start"
    /\ txt = <<>>
    /\ pages = 0
    /\ texts = <<>>
    /\ attempts = <<>>
    /\ best = <<>>
    /\ outs = <<>>
    /\ retval = <<>>
    /\ result = None
    /\ raised = FALSE
    /\ fault = "none"
    /\ rasterCalled = FALSE
    /\ ocrCalls = 0
    /\ anyText = FALSE

\* ocr_file lines 110-112, 121, 141: branch on the extension
Dispatch ==
    /\ pc = "start"
    /\ pc' = IF ext = ".pdf" THEN "pdftotext" ELSE "open"
    /\ UNCHANGED <<ext, txt, pages, texts, attempts, best, outs, retval, result,
                   raised, fault, rasterCalled, ocrCalls, anyText>>

\* ocr_file lines 113 / 144: Image.open(path)
ImageOpen ==
    /\ pc = "open"
    /\ \E ok \in BOOLEAN :
         IF ok
         THEN /\ pc' = "rotate"
              /\ UNCHANGED <<result, raised, fault>>
         ELSE IF ext \in IMAGE_EXTS THEN OuterExcept("open")
              ELSE FallbackExcept("open")
    /\ UNCHANGED <<ext, txt, pages, texts, attempts, best, outs, retval,
                   rasterCalled, ocrCalls, anyText>>

\* ocr_file lines 123-126 with _pdftotext (lines 37-55): a failing subprocess
\* gives ""
PdfToText ==
    /\ pc = "pdftotext"
    /\ \E out \in PdfTexts \cup {FAIL} :
         LET t == IF out = FAIL THEN <<>> ELSE out IN
         /\ txt' = t
         /\ IF TextLayerSufficient(t)
            THEN /\ result' = t
                 /\ pc' = "done"
            ELSE /\ pc' = "raster"
                 /\ UNCHANGED result
    /\ UNCHANGED <<ext, pages, texts, attempts, best, outs, retval, raised,
                   fault, rasterCalled, ocrCalls, anyText>>

\* ocr_file lines 128-134: convert_from_path(path, dpi=450)
Rasterize ==
    /\ pc = "raster"
    /\ rasterCalled' = TRUE
    /\ \E n \in (0..MaxPages) \cup {NoAnswer} :
         IF n = NoAnswer
         THEN /\ RasterExcept("raster")
              /\ UNCHANGED <<pages, texts>>
         ELSE /\ pages' = n
              /\ texts' = <<>>
              /\ pc' = "page"
              /\ UNCHANGED <<result, raised, fault>>
    /\ UNCHANGED <<ext, txt, attempts, best, outs, retval, ocrCalls, anyText>>

\* ocr_file lines 135-140: next page, or join the page texts and return
PageLoop ==
    /\ pc = "page"
    /\ IF Len(texts) < pages
       THEN /\ pc' = "rotate"
            /\ UNCHANGED result
       ELSE /\ result' = JoinPages(texts)
            /\ pc' = "done"
    /\ UNCHANGED <<ext, txt, pages, texts, attempts, best, outs, retval,
                   raised, fault, rasterCalled, ocrCalls, anyText>>

\* ocr_image lines 77-88: _auto_rotate, then the list of attempts.  The
\* orientation detector, img.rotate and every _preprocess_for_ocr may fail and
\* are caught where they are called; _right_band is called unprotected, so its
\* exception reaches the handler of ocr_image (lines 103-105).
BuildAttempts ==
    /\ pc = "rotate"
    /\ outs' = <<>>
    /\ \E osd \in OsdOutcomes, rotateOk \in BOOLEAN, bandOk \in BOOLEAN,
          prepOk \in [2..5 -> BOOLEAN] :
         LET img == <<"img", AutoRotate(osd, rotateOk)>> IN
         IF bandOk
         THEN LET band == RightBand(img) IN
              /\ attempts' = << <<img, AttemptConfigs[1]>>,
                                <<Preprocess(img, prepOk[2]), AttemptConfigs[2]>>,
                                <<Preprocess(img, prepOk[3]), AttemptConfigs[3]>>,
                                <<Preprocess(band, prepOk[4]), AttemptConfigs[4]>>,
                                <<Preprocess(band, prepOk[5]), AttemptConfigs[5]>> >>
              /\ best' = <<>>
              /\ pc' = "attempt"
              /\ UNCHANGED <<retval, fault>>
         ELSE /\ retval' = <<>>
              /\ fault' = "band"
              /\ pc' = "ret"
              /\ UNCHANGED <<attempts, best>>
    /\ UNCHANGED <<ext, txt, pages, texts, result, raised, rasterCalled,
                   ocrCalls, anyText>>

\* ocr_image lines 91-100: one iteration of the loop over the attempts
Attempt ==
    /\ pc = "attempt"
    /\ attempts # <<>>
    /\ \E out \in OcrOutcomes :
         LET t == IF out = FAIL THEN <<>> ELSE out IN
         /\ outs' = Append(outs, <<Head(attempts)[2], t>>)
         /\ best' = Longer(t, best)
         /\ anyText' = (anyText \/ t # <<>>)
    /\ attempts' = Tail(attempts)
    /\ ocrCalls' = ocrCalls + 1
    /\ UNCHANGED <<ext, pc, txt, pages, texts, retval, result, raised, fault,
                   rasterCalled>>

\* ocr_image lines 101-102: return best
AttemptsDone ==
    /\ pc = "attempt"
    /\ attempts = <<>>
    /\ retval' = best
    /\ pc' = "ret"
    /\ UNCHANGED <<ext, txt, pages, texts, attempts, best, outs, result,
                   raised, fault, rasterCalled, ocrCalls, anyText>>

\* ocr_file lines 120 / 137 / 151: the caller takes the value of ocr_image
OcrImageReturn ==
    /\ pc = "ret"
    /\ IF ext = ".pdf"
       THEN /\ texts' = Append(texts, retval)
            /\ pc' = "page"
            /\ UNCHANGED result
       ELSE /\ result' = retval
            /\ pc' = "done"
            /\ UNCHANGED texts
    /\ UNCHANGED <<ext, txt, pages, attempts, best, outs, retval, raised,
                   fault, rasterCalled, ocrCalls, anyText>>

NextOcr ==
    \/ Dispatch /\ UNCHANGED <<parseVars, concVars>>
    \/ ImageOpen /\ UNCHANGED <<parseVars, concVars>>
    \/ PdfToText /\ UNCHANGED <<parseVars, concVars>>
    \/ Rasterize /\ UNCHANGED <<parseVars, concVars>>
    \/ PageLoop /\ UNCHANGED <<parseVars, concVars>>
    \/ BuildAttempts /\ UNCHANGED <<parseVars, concVars>>
    \/ Attempt /\ UNCHANGED <<parseVars, concVars>>
    \/ AttemptsDone /\ UNCHANGED <<parseVars, concVars>>
    \/ OcrImageReturn /\ UNCHANGED <<parseVars, concVars>>

SpecOcr == InitOcr /\ [][NextOcr]_vars

-----------------------------------------------------------------------------
(* The regular expressions of parser.py.  A pattern is a tree:              *)
(*   <<"set", S>>          one character whose lower-case form is in S      *)
(*   <<"cat", <<p, ...>>>> p followed by ...                                *)
(*   <<"alt", <<p, ...>>>> p | ...        (earlier alternative preferred)   *)
(*   <<"rep", p, lo, hi>>  p{lo,hi}, greedy; hi = NoAnswer: no upper limit  *)
(*   <<"grp", p>>          capture group 1                                  *)
(*   <<"bol">> <<"eol">>   ^ and $ under re.M          <<"wb">>  \b         *)
(* Every pattern of parser.py is compiled case-insensitive.  Offsets count  *)
(* the characters before a position, as m.start() does.                     *)

UpperCase == <<"A", "B", "C", "D", "E", "F", "G", "H", "I", "J", "K", "L", "M",
               "N", "O", "P", "Q", "R", "S", "T", "U", "V", "W", "X", "Y", "Z">>
LowerCase == <<"a", "b", "c", "d", "e", "f", "g", "h", "i", "j", "k", "l", "m",
               "n", "o", "p", "q", "r", "s", "t", "u", "v", "w", "x", "y", "z">>
UpperSet == {UpperCase[k] : k \in 1..26}
LowerSet == {LowerCase[k] : k \in 1..26}
Digits == {"0", "1", "2", "3", "4", "5", "6", "7", "8", "9"}

LowerMap == [u \in UpperSet |-> LowerCase[CHOOSE k \in 1..26 : UpperCase[k] = u]]

\* c.lower()
Lower(c) == IF c \in UpperSet THEN LowerMap[c] ELSE c

\* \w
IsWordChar(c) == c \in UpperSet \cup LowerSet \cup Digits \cup {"_"}

RECURSIVE Match(_, _, _, _)
RECURSIVE MatchCat(_, _, _, _, _)
RECURSIVE MatchAlt(_, _, _, _, _)
RECURSIVE MatchRep(_, _, _, _, _)
RECURSIVE Continue(_, _, _, _, _)
RECURSIVE Repeat(_, _, _, _, _)

\* every way pattern n matches t from offset p, as <<end, group 1>>, in the
\* order the backtracking matcher tries them; cap is group 1 so far
Match(n, t, p, cap) ==
    CASE n[1] = "set" ->
           IF p < Len(t) /\ Lower(t[p + 1]) \in n[2] THEN << <<p + 1, cap>> >> ELSE <<>>
      [] n[1] = "cat" -> MatchCat(n[2], 1, t, p, cap)
      [] n[1] = "alt" -> MatchAlt(n[2], 1, t, p, cap)
      [] n[1] = "rep" -> MatchRep(n, 0, t, p, cap)
      [] n[1] = "grp" ->
           LET rs == Match(n[2], t, p, cap)
           IN [k \in 1..Len(rs) |-> <<rs[k][1], <<p, rs[k][1]>> >>]
      [] n[1] = "bol" ->
           IF p = 0 \/ t[p] = "\n" THEN << <<p, cap>> >> ELSE <<>>
      [] n[1] = "eol" ->
           IF p = Len(t) \/ t[p + 1] = "\n" THEN << <<p, cap>> >> ELSE <<>>
      [] n[1] = "wb" ->
           LET before == p > 0 /\ IsWordChar(t[p])
               after == p < Len(t) /\ IsWordChar(t[p + 1])
           IN IF before # after THEN << <<p, cap>> >> ELSE <<>>

\* rs[k..] each continued by the patterns ns[i..]
Continue(rs, k, ns, i, t) ==
    IF k > Len(rs) THEN <<>>
    ELSE MatchCat(ns, i, t, rs[k][1], rs[k][2]) \o Continue(rs, k + 1, ns, i, t)

MatchCat(ns, i, t, p, cap) ==
    IF i > Len(ns) THEN << <<p, cap>> >>
    ELSE Continue(Match(ns[i], t, p, cap), 1, ns, i + 1, t)

MatchAlt(ns, i, t, p, cap) ==
    IF i > Len(ns) THEN <<>>
    ELSE Match(ns[i], t, p, cap) \o MatchAlt(ns, i + 1, t, p, cap)

\* rs[k..] each followed by further repetitions
Repeat(rs, k, n, cnt, t) ==
    IF k > Len(rs) THEN <<>>
    ELSE MatchRep(n, cnt, t, rs[k][1], rs[k][2]) \o Repeat(rs, k + 1, n, cnt, t)

\* greedy: one more repetition is tried before stopping
MatchRep(n, cnt, t, p, cap) ==
    LET more == IF n[4] = NoAnswer \/ cnt < n[4]
                THEN Repeat(Match(n[2], t, p, cap), 1, n, cnt + 1, t)
                ELSE <<>>
        stop == IF cnt >= n[3] THEN << <<p, cap>> >> ELSE <<>>
    IN more \o stop

NoGroup == <<NoAnswer, NoAnswer>>

\* pattern.search / finditer: the matches <<start, end, group 1>> found from
\* offset p on, leftmost first, not overlapping
RECURSIVE FindIter(_, _, _)
FindIter(n, t, p) ==
    IF p > Len(t) THEN <<>>
    ELSE LET rs == Match(n, t, p, NoGroup) IN
         IF rs = <<>> THEN FindIter(n, t, p + 1)
         ELSE << <<p, rs[1][1], rs[1][2]>> >>
              \o FindIter(n, t, IF rs[1][1] > p THEN rs[1][1] ELSE p + 1)

Search(n, t) == FindIter(n, t, 0) # <<>>

\* m.group(1)
Group1(t, m) == SubSeq(t, m[3][1] + 1, m[3][2])

\* pattern pieces
Lit(w) == <<"cat", [k \in 1..Len(w) |-> <<"set", {w[k]}>>]>>
Opt(n) == <<"rep", n, 0, 1>>
Star(n) == <<"rep", n, 0, NoAnswer>>
Plus(n) == <<"rep", n, 1, NoAnswer>>
Times(n, lo, hi) == <<"rep", n, lo, hi>>
Cat(ns) == <<"cat", ns>>
Alt(ns) == <<"alt", ns>>
Grp(n) == <<"grp", n>>
Bol == <<"bol">>
Eol == <<"eol">>
WordBoundary == <<"wb">>
Digit == <<"set", Digits>>
\* \s
Space == <<"set", WS>>
DotOrComma == <<"set", {".", ","}>>

-----------------------------------------------------------------------------
(* parser.py *)

\* STORE_PATTERNS, lines 4-9: <<keyword pattern, <<store name, chain name>>>>
STORE_PATTERNS ==
    << <<Lit(<<"m", "i", "g", "r", "o", "s">>), <<"Migros", "Migros">> >>,
       <<Lit(<<"c", "o", "o", "p">>), <<"Coop", "Coop">> >>,
       <<Lit(<<"a", "l", "d", "i">>), <<"Aldi", "Aldi">> >>,
       <<Lit(<<"l", "i", "d", "l">>), <<"Lidl", "Lidl">> >> >>

\* AMOUNT_GROUP, line 15:
\*   ([0-9]{1,3}(?:[\'\s\.,][0-9]{3})*[.,][0-9]{2}|[0-9]+[.,][0-9]{2})
AMOUNT_GROUP ==
    Grp(Alt(<< Cat(<< Times(Digit, 1, 3),
                      Star(Cat(<< <<"set", {"'", ".", ","} \cup WS>>, Times(Digit, 3, 3) >>)),
                      DotOrComma,
                      Times(Digit, 2, 2) >>),
               Cat(<< Plus(Digit), DotOrComma, Times(Digit, 2, 2) >>) >>))

\* CURRENCY, line 16: (?:CHF|Fr\.?|SFr\.?|EUR|€)
CURRENCY ==
    Alt(<< Lit(<<"c", "h", "f">>),
           Cat(<< Lit(<<"f", "r">>), Opt(Lit(<<".">>)) >>),
           Cat(<< Lit(<<"s", "f", "r">>), Opt(Lit(<<".">>)) >>),
           Lit(<<"e", "u", "r">>),
           Lit(<<"€">>) >>)

\* LABEL, line 17:
\*   (?:TOTAL|SUMME|GESAMT(?:BETRAG)?|TOTALBETRAG|ZU\s*(?:ZAHLEN|BEZAHLEN)|ZAHLBETRAG)
LABEL ==
    Alt(<< Lit(<<"t", "o", "t", "a", "l">>),
           Lit(<<"s", "u", "m", "m", "e">>),
           Cat(<< Lit(<<"g", "e", "s", "a", "m", "t">>), Opt(Lit(<<"b", "e", "t", "r", "a", "g">>)) >>),
           Lit(<<"t", "o", "t", "a", "l", "b", "e", "t", "r", "a", "g">>),
           Cat(<< Lit(<<"z", "u">>), Star(Space), Alt(<< Lit(<<"z", "a", "h", "l", "e", "n">>), Lit(<<"b", "e", "z", "a", "h", "l", "e", "n">>) >>) >>),
           Lit(<<"z", "a", "h", "l", "b", "e", "t", "r", "a", "g">>) >>)

\* LABEL\s*[:=]?\s* , the common head of the first two patterns
LabelHead == << LABEL, Star(Space), Opt(<<"set", {":", "="}>>), Star(Space) >>

\* variant of pattern 1: a single optional blank between label and amount
LabelThenAmountOneBlank ==
    Cat(<< LABEL, Opt(Space), Opt(<<"set", {":", "="}>>), Opt(Space),
           Opt(Cat(<< CURRENCY, Star(Space) >>)), AMOUNT_GROUP >>)

\* TOTAL_PATTERNS[0], line 21: LABEL\s*[:=]?\s*(?:CURRENCY\s*)?AMOUNT_GROUP
LabelThenAmount ==
    Cat(LabelHead \o << Opt(Cat(<< CURRENCY, Star(Space) >>)), AMOUNT_GROUP >>)

\* TOTAL_PATTERNS[1], line 23: LABEL\s*[:=]?\s*AMOUNT_GROUP\s*(?:CURRENCY)
LabelAmountCurrency ==
    Cat(LabelHead \o << AMOUNT_GROUP, Star(Space), CURRENCY >>)

\* TOTAL_PATTERNS[2], line 25: ^(?:CURRENCY)\s*AMOUNT_GROUP\s*$
LineCurrencyAmount ==
    Cat(<< Bol, CURRENCY, Star(Space), AMOUNT_GROUP, Star(Space), Eol >>)

\* TOTAL_PATTERNS[3], line 27: ^AMOUNT_GROUP\s*(?:CURRENCY)\s*$
LineAmountCurrency ==
    Cat(<< Bol, AMOUNT_GROUP, Star(Space), CURRENCY, Star(Space), Eol >>)

TOTAL_PATTERNS ==
    << LabelThenAmount, LabelAmountCurrency, LineCurrencyAmount, LineAmountCurrency >>

\* s.replace(c, "")
RECURSIVE Remove(_, _)
Remove(s, c) ==
    IF s = <<>> THEN <<>>
    ELSE IF Head(s) = c THEN Remove(Tail(s), c)
    ELSE <<Head(s)>> \o Remove(Tail(s), c)

\* s.replace(c, d)
Replace(s, c, d) == [k \in 1..Len(s) |-> IF s[k] = c THEN d ELSE s[k]]

\* c in s
Has(s, c) == \E k \in 1..Len(s) : s[k] = c

RECURSIVE DropLeadingZeros(_)
DropLeadingZeros(s) ==
    IF Len(s) > 1 /\ Head(s) = "0" THEN DropLeadingZeros(Tail(s)) ELSE s

RECURSIVE DropTrailingZeros(_)
DropTrailingZeros(s) ==
    IF s # <<>> /\ s[Len(s)] = "0" THEN DropTrailingZeros(SubSeq(s, 1, Len(s) - 1)) ELSE s

\* the number with integer digits ip and fraction digits fr, written in one
\* way only: equal numbers are equal sequences
Number(ip, fr) ==
    LET i == DropLeadingZeros(IF ip = <<>> THEN <<"0">> ELSE ip)
        f == DropTrailingZeros(fr)
    IN IF f = <<>> THEN i ELSE i \o <<".">> \o f

\* float(s) for a string of digits, separators and blanks: blanks around the
\* number are ignored, the number is digits with at most one point and at
\* least one digit; anything else is a ValueError (None)
Float(s) ==
    LET u == Strip(s)
        dots == {k \in 1..Len(u) : u[k] = "."}
    IN IF /\ u # <<>>
          /\ \A k \in 1..Len(u) : u[k] \in Digits \cup {"."}
          /\ Cardinality(dots) <= 1
          /\ \E k \in 1..Len(u) : u[k] \in Digits
       THEN IF dots = {} THEN Number(u, <<>>)
            ELSE LET d == CHOOSE k \in dots : TRUE
                 IN Number(SubSeq(u, 1, d - 1), SubSeq(u, d + 1, Len(u)))
       ELSE None

\* _normalize_amount_to_float, lines 62-83
NormalizeAmountToFloat(s) ==
    IF s = <<>> THEN None
    ELSE LET a == Remove(Remove(Strip(s), " "), "'")
             b == IF Has(a, ".") /\ Has(a, ",")
                  THEN Replace(Remove(a, "."), ",", ".")
                  ELSE IF Has(a, ",") /\ ~Has(a, ".")
                       THEN Replace(a, ",", ".")
                       ELSE a
         IN Float(b)

\* str.splitlines() for texts whose line ends are \n, \r or \r\n
RECURSIVE SplitLines(_, _)
SplitLines(s, cur) ==
    IF s = <<>> THEN (IF cur = <<>> THEN <<>> ELSE <<cur>>)
    ELSE IF Head(s) = "\r" /\ Len(s) > 1 /\ s[2] = "\n"
         THEN <<cur>> \o SplitLines(Tail(Tail(s)), <<>>)
    ELSE IF Head(s) \in {"\n", "\r"}
         THEN <<cur>> \o SplitLines(Tail(s), <<>>)
    ELSE SplitLines(Tail(s), Append(cur, Head(s)))

\* line 39: ([0-9]{1,6}[.,][0-9]{2})
LineAmount == Grp(Cat(<< Times(Digit, 1, 6), DotOrComma, Times(Digit, 2, 2) >>))

\* line 55: (?i)\b(TOTAL|SUMME|GESAMT)\b
LineKeyword ==
    Cat(<< WordBoundary,
           Grp(Alt(<< Lit(<<"t", "o", "t", "a", "l">>), Lit(<<"s", "u", "m", "m", "e">>), Lit(<<"g", "e", "s", "a", "m", "t">>) >>)),
           WordBoundary >>)

\* _rightmost_amount_in_line, lines 31-46 (the texts here hold no U+00A0,
\* U+2007 or U+202F, which line 37 would turn into blanks)
RightmostAmountInLine(line) ==
    LET matches == FindIter(LineAmount, line, 0) IN
    IF matches # <<>>
    THEN Float(Replace(Group1(line, matches[Len(matches)]), ",", "."))
    ELSE None

\* variant: the first keyword line decides, with or without a number on it
RECURSIVE ScanLinesNoSkip(_)
ScanLinesNoSkip(lines) ==
    IF lines = <<>> THEN None
    ELSE IF Search(LineKeyword, Head(lines))
         THEN RightmostAmountInLine(Head(lines))
         ELSE ScanLinesNoSkip(Tail(lines))

\* _parse_total_by_lines, lines 49-59, over the lines not yet looked at
RECURSIVE ScanLines(_)
ScanLines(lines) ==
    IF lines = <<>> THEN None
    ELSE IF Search(LineKeyword, Head(lines))
            /\ RightmostAmountInLine(Head(lines)) # None
         THEN RightmostAmountInLine(Head(lines))
         ELSE ScanLines(Tail(lines))

ParseTotalByLines(t) == ScanLines(SplitLines(t, <<>>))

\* variant of the store loop without its break: the last matching entry wins
RECURSIVE LastStore(_, _)
LastStore(t, k) ==
    IF k > Len(STORE_PATTERNS) THEN <<None, None>>
    ELSE LET rest == LastStore(t, k + 1) IN
         IF rest # <<None, None>> THEN rest
         ELSE IF Search(STORE_PATTERNS[k][1], t)
              THEN << <<STORE_PATTERNS[k][2][1]>>, <<STORE_PATTERNS[k][2][2]>> >>
              ELSE <<None, None>>

\* lines 87-92: the first entry of STORE_PATTERNS, from entry k on, whose
\* pattern is found in the text
RECURSIVE FirstStore(_, _)
FirstStore(t, k) ==
    IF k > Len(STORE_PATTERNS) THEN <<None, None>>
    ELSE IF Search(STORE_PATTERNS[k][1], t)
         THEN << <<STORE_PATTERNS[k][2][1]>>, <<STORE_PATTERNS[k][2][2]>> >>
         ELSE FirstStore(t, k + 1)

\* lines 97-101 for one pattern: <<m.start(), val, raw>> of every match whose
\* amount normalizes to a number
RECURSIVE Parsable(_, _)
Parsable(t, ms) ==
    IF ms = <<>> THEN <<>>
    ELSE LET raw == Group1(t, Head(ms))
             val == NormalizeAmountToFloat(raw)
         IN (IF val # None THEN << <<Head(ms)[1], val, raw>> >> ELSE <<>>)
            \o Parsable(t, Tail(ms))

\* variant: the candidates stay in the order they were collected
Unsorted(cs) == cs

\* line 106: candidates.sort(key=lambda x: x[0]), a stable sort
RECURSIVE SortByStart(_)
SortByStart(cs) ==
    IF cs = <<>> THEN <<>>
    ELSE LET sorted == SortByStart(SubSeq(cs, 1, Len(cs) - 1))
             c == cs[Len(cs)]
             n == Cardinality({k \in 1..Len(sorted) : sorted[k][1] <= c[1]})
         IN SubSeq(sorted, 1, n) \o <<c>> \o SubSeq(sorted, n + 1, Len(sorted))

-----------------------------------------------------------------------------
(* parse_store_and_total as a machine *)

\* the line of the right-aligned layout: TOTAL, a run of blanks, 34.65
RightAlignedTotalLine == <<"T", "O", "T", "A", "L">> \o Rep(" ", BlankRun) \o <<"3", "4", ".", "6", "5">> \o <<"\n">>

\* lines without any total-like content
NeutralFragments ==
    { <<"M", "i", "g", "r", "o", "s", "\n">>, <<"C", "O", "O", "P", "\n">>, <<"a", "L", "d", "I", "\n">>, <<"l", "i", "d", "l", "\n">> }

\* the receipt lines the texts are made of
Fragments ==
    NeutralFragments \cup
    { <<"Z", "w", "i", "s", "c", "h", "e", "n", "s", "u", "m", "m", "e", ":", " ", "2", "0", ".", "0", "0", "\n">>,
      <<"T", "o", "t", "a", "l", " ", "C", "H", "F", " ", "3", "4", ".", "6", "5", "\n">>,
      RightAlignedTotalLine,
      <<"C", "H", "F", " ", "1", "2", ".", "5", "0", "\n">>,
      <<"9", ".", "9", "5", " ", "E", "U", "R", "\n">>,
      <<"S", "u", "m", "m", "e", " ", "1", "2", "3", "4", ",", "5", "6", " ", "F", "r", ".", "\n">>,
      <<"G", "e", "s", "a", "m", "t", "\n">> }

RECURSIVE FragTexts(_)
FragTexts(n) ==
    IF n = 0 THEN {<<>>}
    ELSE LET shorter == FragTexts(n - 1)
         IN shorter \cup {p \o f : p \in shorter, f \in Fragments}

\* amount tokens: 1, then groups of three digits each behind a thousands
\* separator or none, then a decimal separator and two digits
ThousandsSeparators == { <<".">>, <<",">>, <<"'">>, <<" ">>, <<>> }
DecimalSeparators == { <<".">>, <<",">> }

RECURSIVE IntegerParts(_)
IntegerParts(n) ==
    IF n = 0 THEN { <<"1">> }
    ELSE {p \o s \o <<"2", "3", "4">> : p \in IntegerParts(n - 1), s \in ThousandsSeparators}

AmountTokens ==
    {p \o d \o <<"5", "6">> :
        p \in UNION {IntegerParts(n) : n \in 0..MaxGroups}, d \in DecimalSeparators}

\* a label directly before the token, and a label with a word in between
AmountPrefixes == { <<"T", "o", "t", "a", "l", " ">>, <<"T", "o", "t", "a", "l", " ", "i", "n", "c", "l", ".", " ">> }

AmountTexts == {p \o t : p \in AmountPrefixes, t \in AmountTokens}

\* lines no pattern of TOTAL_PATTERNS matches: a keyword without a number, a
\* keyword with two numbers, a keyword with one number, a number behind a word
\* that only starts with a keyword
LineFragments ==
    { <<"G", "e", "s", "a", "m", "t", "\n">>,
      <<"T", "o", "t", "a", "l", " ", "x", " ", "5", ",", "0", "0", " ", "7", ".", "5", "0", "\n">>,
      <<"S", "U", "M", "M", "E", " ", "n", "e", "t", "t", "o", " ", "3", ".", "2", "0", "\n">>,
      <<"T", "o", "t", "a", "l", "s", " ", "9", ".", "9", "9", "\n">> }

RECURSIVE LineTexts(_)
LineTexts(n) ==
    IF n = 0 THEN {<<>>}
    ELSE LET shorter == LineTexts(n - 1)
         IN shorter \cup {p \o f : p \in shorter, f \in LineFragments}

Texts == FragTexts(MaxFrags) \cup AmountTexts \cup LineTexts(MaxLines)

OcrIdle ==
    /\ ext = ".bin"
    /\ pc = "idle"
    /\ txt = <<>>
    /\ pages = 0
    /\ texts = <<>>
    /\ attempts = <<>>
    /\ best = <<>>
    /\ outs = <<>>
    /\ retval = <<>>
    /\ result = None
    /\ raised = FALSE
    /\ fault = "none"
    /\ rasterCalled = FALSE
    /\ ocrCalls = 0
    /\ anyText = FALSE

InitParse ==
    /\ OcrIdle
    /\ ConcIdle
    /\ text \in Texts
    /\ ppc = "store"
    /\ store_name = None
    /\ chain_name = None
    /\ patIx = 1
    /\ candidates = <<>>
    /\ total = None
    /\ tier = 0

\* lines 87-92: the store loop
ParseStore ==
    /\ ppc = "store"
    /\ store_name' = FirstStore(text, 1)[1]
    /\ chain_name' = FirstStore(text, 1)[2]
    /\ ppc' = "scan"
    /\ UNCHANGED <<text, patIx, candidates, total, tier>>

\* lines 96-101: one iteration of the loop over TOTAL_PATTERNS
ScanPattern ==
    /\ ppc = "scan"
    /\ patIx <= Len(TOTAL_PATTERNS)
    /\ candidates' = candidates \o Parsable(text, FindIter(TOTAL_PATTERNS[patIx], text, 0))
    /\ patIx' = patIx + 1
    /\ UNCHANGED <<text, ppc, store_name, chain_name, total, tier>>

\* lines 104-107: the candidate with the highest start
PickLast ==
    /\ ppc = "scan"
    /\ patIx > Len(TOTAL_PATTERNS)
    /\ candidates # <<>>
    /\ LET sorted == SortByStart(candidates) IN
       /\ candidates' = sorted
       /\ total' = sorted[Len(sorted)][2]
    /\ tier' = 1
    /\ ppc' = "done"
    /\ UNCHANGED <<text, store_name, chain_name, patIx>>

\* lines 108-110: no candidate, scan the lines
LineFallback ==
    /\ ppc = "scan"
    /\ patIx > Len(TOTAL_PATTERNS)
    /\ candidates = <<>>
    /\ total' = ParseTotalByLines(text)
    /\ tier' = 2
    /\ ppc' = "done"
    /\ UNCHANGED <<text, store_name, chain_name, patIx, candidates>>

NextParse ==
    \/ ParseStore /\ UNCHANGED <<ocrVars, concVars>>
    \/ ScanPattern /\ UNCHANGED <<ocrVars, concVars>>
    \/ PickLast /\ UNCHANGED <<ocrVars, concVars>>
    \/ LineFallback /\ UNCHANGED <<ocrVars, concVars>>

SpecParse == InitParse /\ [][NextParse]_vars

-----------------------------------------------------------------------------
(* Several calls of ocr_file and parse_store_and_total in flight.  Every    *)
(* name the two functions assign is a local of the call; the module-level   *)
(* names (logger, LANG, the compiled patterns) are only read.  A document   *)
(* fixes what the external services answer for it.                          *)

Calls == 1..MaxCalls

ImageDoc(ok, page) ==
    [kind |-> "extract", ext |-> ".png", openOk |-> ok, layer |-> <<>>,
     pageOuts |-> <<page>>, text |-> <<>>]

PdfDoc(t, pgs) ==
    [kind |-> "extract", ext |-> ".pdf", openOk |-> TRUE, layer |-> t,
     pageOuts |-> pgs, text |-> <<>>]

TextDoc(t) ==
    [kind |-> "parse", ext |-> "", openOk |-> TRUE, layer |-> <<>>,
     pageOuts |-> <<>>, text |-> t]

\* a readable image, an unreadable image, a PDF without text layer and two
\* pages, and two extracted texts
Documents ==
    { ImageDoc(TRUE, << <<"a">>, <<"a", "b">>, FAIL, <<"b">>, <<>> >>),
      ImageDoc(FALSE, << <<>>, <<>>, <<>>, <<>>, <<>> >>),
      PdfDoc(<<>>, << << <<"a">>, <<>>, <<>>, <<>>, <<>> >>,
                      << <<>>, <<"b">>, FAIL, <<>>, <<>> >> >>),
      TextDoc(<<"C", "H", "F", " ", "1", "2", ".", "5", "0", "\n">> \o <<"T", "o", "t", "a", "l", " ", "C", "H", "F", " ", "3", "4", ".", "6", "5", "\n">>),
      TextDoc(<<"M", "i", "g", "r", "o", "s", "\n">> \o <<"T", "o", "t", "a", "l", " ", "x", " ", "5", ",", "0", "0", " ", "7", ".", "5", "0", "\n">>) }

\* the locals of a call before its first statement
NewFrame ==
    [pc |-> "start", tried |-> 0, best |-> <<>>, texts |-> <<>>,
     result |-> None, store_name |-> None, chain_name |-> None, patIx |-> 1,
     total |-> None]

\* variant: candidates is one list of the module that all calls append to
CandidatesShared(c) == 1

\* parse_store_and_total line 95: candidates = [] makes a list of the call
CandidatesOf(c) == c

InitConc ==
    /\ OcrIdle
    /\ ParseIdle
    /\ calls \in {s \in [Calls -> Documents] :
                    \A i, j \in Calls : i # j => s[i] # s[j]}
    /\ frame = [c \in Calls |-> NewFrame]
    /\ lists = [c \in Calls |-> <<>>]

\* ocr_file lines 110-134: branch on the extension, Image.open, _pdftotext,
\* convert_from_path
CallDispatch(c) ==
    /\ frame[c].pc = "start"
    /\ calls[c].kind = "extract"
    /\ frame' = [frame EXCEPT ![c] =
         IF calls[c].ext = ".pdf"
         THEN IF TextLayerSufficient(calls[c].layer)
              THEN [@ EXCEPT !.result = calls[c].layer, !.pc = "done"]
              ELSE [@ EXCEPT !.texts = <<>>, !.pc = "page"]
         ELSE IF calls[c].openOk
              THEN [@ EXCEPT !.best = <<>>, !.tried = 0, !.pc = "attempt"]
              ELSE [@ EXCEPT !.result = <<>>, !.pc = "done"]]
    /\ UNCHANGED <<calls, lists>>

\* ocr_image lines 91-100: one iteration of the loop over the attempts
CallAttempt(c) ==
    /\ frame[c].pc = "attempt"
    /\ frame[c].tried < Len(AttemptConfigs)
    /\ LET out == calls[c].pageOuts[Len(frame[c].texts) + 1][frame[c].tried + 1]
           t == IF out = FAIL THEN <<>> ELSE out
       IN frame' = [frame EXCEPT ![c] =
             [@ EXCEPT !.best = Longer(t, @), !.tried = @ + 1]]
    /\ UNCHANGED <<calls, lists>>

\* ocr_image lines 101-102 and ocr_file lines 120 / 137
CallImageReturn(c) ==
    /\ frame[c].pc = "attempt"
    /\ frame[c].tried = Len(AttemptConfigs)
    /\ frame' = [frame EXCEPT ![c] =
         IF calls[c].ext = ".pdf"
         THEN [@ EXCEPT !.texts = Append(@, frame[c].best), !.pc = "page"]
         ELSE [@ EXCEPT !.result = frame[c].best, !.pc = "done"]]
    /\ UNCHANGED <<calls, lists>>

\* ocr_file lines 135-140: next page, or join the page texts and return
CallPageLoop(c) ==
    /\ frame[c].pc = "page"
    /\ frame' = [frame EXCEPT ![c] =
         IF Len(frame[c].texts) < Len(calls[c].pageOuts)
         THEN [@ EXCEPT !.best = <<>>, !.tried = 0, !.pc = "attempt"]
         ELSE [@ EXCEPT !.result = JoinPages(frame[c].texts), !.pc = "done"]]
    /\ UNCHANGED <<calls, lists>>

\* parse_store_and_total lines 87-95
CallParseStore(c) ==
    /\ frame[c].pc = "start"
    /\ calls[c].kind = "parse"
    /\ frame' = [frame EXCEPT ![c] =
         [@ EXCEPT !.store_name = FirstStore(calls[c].text, 1)[1],
                   !.chain_name = FirstStore(calls[c].text, 1)[2],
                   !.patIx = 1,
                   !.pc = "scan"]]
    /\ lists' = [lists EXCEPT ![CandidatesOf(c)] = <<>>]
    /\ UNCHANGED calls

\* parse_store_and_total lines 96-101
CallScanPattern(c) ==
    /\ frame[c].pc = "scan"
    /\ frame[c].patIx <= Len(TOTAL_PATTERNS)
    /\ lists' = [lists EXCEPT ![CandidatesOf(c)] =
         @ \o Parsable(calls[c].text,
                       FindIter(TOTAL_PATTERNS[frame[c].patIx], calls[c].text, 0))]
    /\ frame' = [frame EXCEPT ![c] = [@ EXCEPT !.patIx = @ + 1]]
    /\ UNCHANGED calls

\* parse_store_and_total lines 104-107 and 112
CallPickLast(c) ==
    /\ frame[c].pc = "scan"
    /\ frame[c].patIx > Len(TOTAL_PATTERNS)
    /\ lists[CandidatesOf(c)] # <<>>
    /\ LET sorted == SortByStart(lists[CandidatesOf(c)]) IN
       /\ lists' = [lists EXCEPT ![CandidatesOf(c)] = sorted]
       /\ frame' = [frame EXCEPT ![c] =
            [@ EXCEPT !.total = sorted[Len(sorted)][2], !.pc = "done"]]
    /\ UNCHANGED calls

\* parse_store_and_total lines 108-112
CallLineFallback(c) ==
    /\ frame[c].pc = "scan"
    /\ frame[c].patIx > Len(TOTAL_PATTERNS)
    /\ lists[CandidatesOf(c)] = <<>>
    /\ frame' = [frame EXCEPT ![c] =
         [@ EXCEPT !.total = ParseTotalByLines(calls[c].text), !.pc = "done"]]
    /\ UNCHANGED <<calls, lists>>

NextConc ==
    \/ \E c \in Calls : CallDispatch(c) /\ UNCHANGED <<ocrVars, parseVars>>
    \/ \E c \in Calls : CallAttempt(c) /\ UNCHANGED <<ocrVars, parseVars>>
    \/ \E c \in Calls : CallImageReturn(c) /\ UNCHANGED <<ocrVars, parseVars>>
    \/ \E c \in Calls : CallPageLoop(c) /\ UNCHANGED <<ocrVars, parseVars>>
    \/ \E c \in Calls : CallParseStore(c) /\ UNCHANGED <<ocrVars, parseVars>>
    \/ \E c \in Calls : CallScanPattern(c) /\ UNCHANGED <<ocrVars, parseVars>>
    \/ \E c \in Calls : CallPickLast(c) /\ UNCHANGED <<ocrVars, parseVars>>
    \/ \E c \in Calls : CallLineFallback(c) /\ UNCHANGED <<ocrVars, parseVars>>

SpecConc == InitConc /\ [][NextConc]_vars

-----------------------------------------------------------------------------
(* Properties of ocr.py *)

IsText(s) == s # None /\ s # FAIL

\* C1: ocr_file never raises: whatever the extension and whichever external
\* services fail, the call ends with a string, and a failing Image.open or a
\* failing convert_from_path ends it with the empty string.
C1_NeverRaises ==
    /\ ~raised
    /\ pc = "done" => IsText(result)
    /\ (pc = "done" /\ fault \in {"open", "raster"}) => result = <<>>

C1_Witness ==
    /\ pc = "done"
    /\ ext \in IMAGE_EXTS
    /\ fault = "open"
    /\ result = <<>>

\* C2: a PDF whose text layer has at least 20 characters after trimming
\* returns exactly the pdftotext output without any call of the rasterizer or
\* of the OCR engine; for a PDF these are called only after pdftotext gave a
\* text of fewer than 20 trimmed characters.
C2_TextLayerFastPath ==
    /\ (ext = ".pdf" /\ pc = "done" /\ Len(Strip(txt)) >= 20)
          => (result = txt /\ ~rasterCalled /\ ocrCalls = 0)
    /\ (ext = ".pdf" /\ (rasterCalled \/ ocrCalls > 0))
          => (pc \notin {"start", "pdftotext"} /\ Len(Strip(txt)) < 20)

C2_Witness ==
    /\ ext = ".pdf"
    /\ pc = "done"
    /\ Len(Strip(txt)) = 20
    /\ Len(txt) > 20
    /\ result = txt
    /\ ~rasterCalled

\* C3: every call of ocr_image makes all five image_to_string calls, in the
\* order of the attempt list, whatever failed before.
C3_AllFiveAttemptsRun ==
    pc = "ret" => [k \in 1..Len(outs) |-> outs[k][1]] = AttemptConfigs

\* the text of the earliest attempt of maximal length, "" when there is none
FirstLongest(log) ==
    IF log = <<>> THEN <<>>
    ELSE LET k == CHOOSE i \in 1..Len(log) :
                    /\ \A j \in 1..Len(log) : Len(log[j][2]) <= Len(log[i][2])
                    /\ \A j \in 1..(i - 1) : Len(log[j][2]) < Len(log[i][2])
         IN log[k][2]

\* C4: ocr_image returns the text of an attempt of maximal length, the
\* earliest one on a tie (a failed attempt counts as ""), and "" when every
\* attempt failed or gave "".
C4_LongestAttemptWins ==
    /\ pc = "ret" => retval = FirstLongest(outs)
    /\ (pc = "ret" /\ \A k \in 1..Len(outs) : outs[k][2] = <<>>) => retval = <<>>
    /\ (pc = "done" /\ ext # ".pdf" /\ fault # "open") => result = FirstLongest(outs)

C4_Witness ==
    /\ pc = "ret"
    /\ Len(outs) = 5
    /\ outs[1][2] = <<>>
    /\ outs[2][2] = <<"a">>
    /\ outs[4][2] = <<"b">>
    /\ Len(outs[3][2]) <= 1
    /\ Len(outs[5][2]) <= 1
    /\ retval = <<"a">>

\* C5: when every OCR attempt on every page failed or gave "", ocr_file
\* returns "".
C5_TotalFailureIsEmpty ==
    (pc = "done" /\ (ext # ".pdf" \/ rasterCalled) /\ ~anyText) => result = <<>>

-----------------------------------------------------------------------------
(* Properties of parser.py *)

\* the keyword table as the specification lists it, in priority order
KeywordTable ==
    << <<<<"m", "i", "g", "r", "o", "s">>, "Migros">>, <<<<"c", "o", "o", "p">>, "Coop">>, <<<<"a", "l", "d", "i">>, "Aldi">>, <<<<"l", "i", "d", "l">>, "Lidl">> >>

\* the keyword occurs somewhere in the text, letter case ignored
Occurs(kw, t) ==
    \E o \in 0..(Len(t) - Len(kw)) : \A k \in 1..Len(kw) : Lower(t[o + k]) = kw[k]

\* C6: the store and the chain are those of the earliest table entry whose
\* keyword occurs in the text, wherever in the text the keywords stand; without
\* any keyword both are absent; so both are present or both are absent.
C6_MerchantByTableOrder ==
    ppc \in {"scan", "done"} =>
        LET hits == {k \in 1..Len(KeywordTable) : Occurs(KeywordTable[k][1], text)} IN
        /\ (store_name = None) <=> (chain_name = None)
        /\ IF hits = {}
           THEN store_name = None /\ chain_name = None
           ELSE LET first == CHOOSE k \in hits : \A j \in hits : k <= j IN
                /\ store_name = <<KeywordTable[first][2]>>
                /\ chain_name = <<KeywordTable[first][2]>>

\* Coop stands before Migros in the text, Migros before Coop in the table
C6_Witness ==
    /\ ppc = "done"
    /\ text = <<"C", "O", "O", "P", "\n">> \o <<"M", "i", "g", "r", "o", "s", "\n">>
    /\ store_name = <<"Migros">>
    /\ chain_name = <<"Migros">>

\* <<start, amount>> of every match of pattern k whose amount is a number
ParsableMatches(t, k) ==
    LET ms == FindIter(TOTAL_PATTERNS[k], t, 0)
        all == { <<ms[i][1], NormalizeAmountToFloat(Group1(t, ms[i]))>> : i \in 1..Len(ms) }
    IN {c \in all : c[2] # None}

AllParsableMatches(t) == UNION {ParsableMatches(t, k) : k \in 1..Len(TOTAL_PATTERNS)}

\* C7: when some pattern gives a parsable candidate, the total is the amount
\* of a candidate whose start offset is the largest among the candidates of all
\* four patterns.
C7_LatestCandidateWins ==
    ppc = "done" =>
        LET all == AllParsableMatches(text)
            last == CHOOSE s \in {c[1] : c \in all} : \A d \in all : d[1] <= s
        IN all # {} => (tier = 1 /\ total \in {c[2] : c \in {d \in all : d[1] = last}})

\* the subtotal line followed by the total line
C7_Witness ==
    /\ ppc = "done"
    /\ text = <<"Z", "w", "i", "s", "c", "h", "e", "n", "s", "u", "m", "m", "e", ":", " ", "2", "0", ".", "0", "0", "\n">> \o <<"T", "o", "t", "a", "l", " ", "C", "H", "F", " ", "3", "4", ".", "6", "5", "\n">>
    /\ Len(candidates) = 2
    /\ total = <<"3", "4", ".", "6", "5">>

\* texts whose only total-like content is the right-aligned line
RightAlignedTexts ==
    {p \o RightAlignedTotalLine \o s :
        p \in NeutralFragments \cup {<<>>}, s \in NeutralFragments \cup {<<>>}}

\* C8 as stated: for such a text no pattern gives a candidate and the total
\* 34.65 comes from the line scan.
C8_RightAlignedViaLineScan ==
    (ppc = "done" /\ text \in RightAlignedTexts) =>
        /\ candidates = <<>>
        /\ tier = 2
        /\ total = <<"3", "4", ".", "6", "5">>

\* C8 amended: for such a text the first pattern matches the line (its \s*
\* takes the run of blanks), the total 34.65 is that candidate and the line
\* scan is not used.
C8_RightAlignedViaPattern ==
    (ppc = "done" /\ text \in RightAlignedTexts) =>
        /\ FindIter(TOTAL_PATTERNS[1], text, 0) # <<>>
        /\ candidates # <<>>
        /\ \A k \in 1..Len(candidates) : candidates[k][3] = <<"3", "4", ".", "6", "5">>
        /\ tier = 1
        /\ total = <<"3", "4", ".", "6", "5">>

C8_Witness ==
    /\ ppc = "done"
    /\ text = <<"M", "i", "g", "r", "o", "s", "\n">> \o RightAlignedTotalLine
    /\ tier = 1
    /\ total = <<"3", "4", ".", "6", "5">>

\* the first line with a keyword and a two-decimal number
RECURSIVE QualifyingLine(_)
QualifyingLine(lines) ==
    IF lines = <<>> THEN <<>>
    ELSE IF Search(LineKeyword, Head(lines)) /\ Search(LineAmount, Head(lines))
         THEN Head(lines)
         ELSE QualifyingLine(Tail(lines))

\* the right-most amount token of a line, as AMOUNT_GROUP reads amounts
RightmostToken(line) ==
    LET ms == FindIter(AMOUNT_GROUP, line, 0) IN Group1(line, ms[Len(ms)])

\* C9: the total of the line scan is the normalization of the right-most
\* amount token of the qualifying line, thousands separators removed: what the
\* patterns would give for that token.
C9_LineScanNormalizes ==
    (ppc = "done" /\ tier = 2 /\ total # None) =>
        total = NormalizeAmountToFloat(
                    RightmostToken(QualifyingLine(SplitLines(text, <<>>))))

\* the digits of a token
RECURSIVE DigitsOf(_)
DigitsOf(s) ==
    IF s = <<>> THEN <<>>
    ELSE IF Head(s) \in Digits THEN <<Head(s)>> \o DigitsOf(Tail(s))
    ELSE DigitsOf(Tail(s))

\* the digits before the last separator as integer part, the last two digits
\* as fraction
TwoDecimalValue(raw) ==
    Number(DigitsOf(SubSeq(raw, 1, Len(raw) - 3)), SubSeq(raw, Len(raw) - 1, Len(raw)))

\* C10: every captured token is discarded or becomes the number made of its
\* digits before the last separator and its last two digits as fraction; the
\* four examples of the specification.
C10_TwoFractionDigits ==
    /\ \A k \in 1..Len(candidates) : candidates[k][2] = TwoDecimalValue(candidates[k][3])
    /\ (ppc = "done" /\ tier = 1) =>
           \E k \in 1..Len(candidates) : total = TwoDecimalValue(candidates[k][3])
    /\ NormalizeAmountToFloat(<<"1", "'", "2", "3", "4", ".", "5", "6">>) = <<"1", "2", "3", "4", ".", "5", "6">>
    /\ NormalizeAmountToFloat(<<"1", " ", "2", "3", "4", ",", "5", "6">>) = <<"1", "2", "3", "4", ".", "5", "6">>
    /\ NormalizeAmountToFloat(<<"3", "4", ",", "6", "5">>) = <<"3", "4", ".", "6", "5">>
    /\ NormalizeAmountToFloat(<<"3", "4", ".", "6", "5">>) = <<"3", "4", ".", "6", "5">>

\* TOTAL, SUMME or GESAMT stands in the line as a word of its own
StandaloneKeyword(line) ==
    \E kw \in { <<"t", "o", "t", "a", "l">>, <<"s", "u", "m", "m", "e">>, <<"g", "e", "s", "a", "m", "t">> } :
        \E o \in 0..(Len(line) - Len(kw)) :
            /\ \A k \in 1..Len(kw) : Lower(line[o + k]) = kw[k]
            /\ o = 0 \/ ~IsWordChar(line[o])
            /\ o + Len(kw) = Len(line) \/ ~IsWordChar(line[o + Len(kw) + 1])

\* a digit, a point or comma and two digits stand somewhere in the line
HasTwoDecimal(line) ==
    \E k \in 1..(Len(line) - 3) :
        /\ line[k] \in Digits
        /\ line[k + 1] \in {".", ","}
        /\ line[k + 2] \in Digits
        /\ line[k + 3] \in Digits

\* C12: the line scan returns the last two-decimal number (numbers read from
\* left to right, not overlapping) of the first line, in document order, that
\* holds a standalone keyword and a two-decimal number: keyword lines without
\* a number are passed over, later lines do not count, and without such a line
\* the total is absent.
C12_FirstQualifyingLine ==
    (ppc = "done" /\ tier = 2) =>
        LET lines == SplitLines(text, <<>>)
            q == {k \in 1..Len(lines) :
                    StandaloneKeyword(lines[k]) /\ HasTwoDecimal(lines[k])}
        IN IF q = {} THEN total = None
           ELSE LET first == CHOOSE k \in q : \A j \in q : k <= j
                    ms == FindIter(LineAmount, lines[first], 0)
                IN /\ total # None
                   /\ total = TwoDecimalValue(Group1(lines[first], ms[Len(ms)]))

\* a keyword line without number, a line with two numbers, a later line
C12_Witness ==
    /\ ppc = "done"
    /\ tier = 2
    /\ text = <<"G", "e", "s", "a", "m", "t", "\n">> \o <<"T", "o", "t", "a", "l", " ", "x", " ", "5", ",", "0", "0", " ", "7", ".", "5", "0", "\n">> \o <<"S", "U", "M", "M", "E", " ", "n", "e", "t", "t", "o", " ", "3", ".", "2", "0", "\n">>
    /\ total = <<"7", ".", "5">>

-----------------------------------------------------------------------------
(* Properties of concurrent calls *)

\* the longest text of a page's attempts, the first among equals
RECURSIVE BestOf(_)
BestOf(page) ==
    IF page = <<>> THEN <<>>
    ELSE LET last == page[Len(page)]
         IN Longer(IF last = FAIL THEN <<>> ELSE last,
                   BestOf(SubSeq(page, 1, Len(page) - 1)))

\* what ocr_file returns for the document when no other call runs
ExtractAlone(d) ==
    IF d.ext = ".pdf"
    THEN IF TextLayerSufficient(d.layer) THEN d.layer
         ELSE JoinPages([k \in 1..Len(d.pageOuts) |-> BestOf(d.pageOuts[k])])
    ELSE IF d.openOk THEN BestOf(d.pageOuts[1]) ELSE <<>>

RECURSIVE AllCandidates(_, _)
AllCandidates(t, k) ==
    IF k > Len(TOTAL_PATTERNS) THEN <<>>
    ELSE Parsable(t, FindIter(TOTAL_PATTERNS[k], t, 0)) \o AllCandidates(t, k + 1)

\* what parse_store_and_total returns for the text when no other call runs
ParseAlone(t) ==
    LET cs == SortByStart(AllCandidates(t, 1))
    IN << FirstStore(t, 1)[1], FirstStore(t, 1)[2],
          IF cs # <<>> THEN cs[Len(cs)][2] ELSE ParseTotalByLines(t) >>

SameAsAlone ==
    \A c \in DOMAIN frame :
        frame[c].pc = "done" =>
            IF calls[c].kind = "extract"
            THEN frame[c].result = ExtractAlone(calls[c])
            ELSE <<frame[c].store_name, frame[c].chain_name, frame[c].total>>
                     = ParseAlone(calls[c].text)

OnlyOwnState ==
    \E c \in DOMAIN frame :
        \A d \in DOMAIN frame \ {c} : frame'[d] = frame[d] /\ lists'[d] = lists[d]

\* C11: with calls on different documents interleaved in any order, every call
\* ends with the result it has when it runs alone, and no step of a call
\* changes a local or a list of another call.
C11_CallsIndependent == []SameAsAlone /\ [][OnlyOwnState]_vars

\* a finished parse call next to a parse call of another text that is half
\* way through the patterns and has a candidate
C11_Witness ==
    /\ DOMAIN frame # {}
    /\ calls[1].kind = "parse"
    /\ calls[2].kind = "parse"
    /\ calls[1] # calls[2]
    /\ frame[1].pc = "done"
    /\ frame[1].store_name = <<"Migros">>
    /\ frame[1].total = <<"7", ".", "5">>
    /\ frame[2].pc = "scan"
    /\ frame[2].patIx = 4
    /\ lists[2] # <<>>

====
